---- MODULE Spec2Model ----
(***************************************************************************)
(* State-machine model of the bonding backend's request handlers           *)
(* (bondingapp/core/views.py, bondingapp/core/serializers.py) over the     *)
(* tables of bondingapp/models.py.                                         *)
(*                                                                         *)
(* Every handler runs in Django's default autocommit mode: the source      *)
(* contains no transaction.atomic, select_for_update, F() expression or    *)
(* update_fields, so each ORM statement is one atomic step of its own,     *)
(* `request.user` is a snapshot of the caller's row taken when the request *)
(* is authenticated, and Model.save() writes every column of that          *)
(* snapshot back.                                                          *)
(***************************************************************************)
EXTENDS Integers, Sequences, FiniteSets, TLC

\* ---------------------------------------------------------------- bounds
NumProcs == 2          \* request handlers that can be in flight together
MaxRequests == 3       \* requests issued in one behaviour
MaxDay == 2            \* days the clock runs through
MaxSessions == 2       \* ActivitySession rows that start may create
MaxPoints == 3100      \* point totals explored by the level calculator
MaxStreakDay == 6      \* dates the streak tracker is called on
MaxCalls == 4          \* calls of update_streak in one behaviour
MaxCompletions == 21   \* completions of one user inside the 30-day window
MaxStreakLen == 16     \* current_streak values given to the bond score
MaxEvals == 3          \* achievement evaluations in one behaviour

\* ------------------------------------------------------- program constants
PointsReward == 10     \* Activity.points_reward default
CoinsReward == 10      \* Activity.coins_reward default
BonusCoins == 5        \* claim_daily_bonus: bonus_coins
MaxSkipsPerDay == 2    \* SkipLimit.max_skips_per_day default
UnlockCost == 5        \* Activity.unlock_cost_coins of a premium activity

Users == {"u1", "u2", "u3"}
NoUser == "none"
Activities == {"a1"}
PremiumActivities == {"a2"}
Procs == 1..NumProcs
Days == 1..MaxDay
NoDate == 0
Costs == {0, 5, 10}    \* `cost` values a spend request may carry
Ratings == {3, 6}      \* `rating` values a complete request may carry
Modes == {"solo", "together"}
Codes == Users \cup {"bad"}   \* invitation codes: each user's own, and one of nobody
OpenStatuses == {"started", "in_progress"}

VARIABLES
    users,          \* table users: id -> row
    sessions,       \* table activity_sessions, in creation order (id = index)
    completions,    \* table activity_completions, in creation order
    streaks,        \* table streaks, in creation order (pk = index)
    ledger,         \* table coin_transactions, in creation order
    notifications,  \* table notifications, in creation order
    skipLimits,     \* table skip_limits: <<user, date>> -> skips_used
    today,          \* timezone.now().date()
    req,            \* per handler: position, inputs and in-memory objects
    nreq,           \* requests issued so far
    lvPoints,       \* level calculator: total_points given
    lvLevel,        \* level calculator: current_level computed
    lvReport,       \* level calculator: the last progress report computed
    skRow,          \* streak tracker: the Streak row
    skDay,          \* streak tracker: the date of the last update_streak call
    skCalls,        \* streak tracker: update_streak calls made
    bond,           \* bond score: the user state given and the score returned
    userBadges,     \* table user_badges, in creation order
    userMilestones, \* table user_milestones, in creation order
    ev,             \* per evaluator: position and the entry under evaluation
    nev,            \* evaluations started so far
    skipAnswers,    \* <<user, date>> -> skip requests answered 200
    catalog,        \* table activities: id -> the rewards of the activity
    skRead          \* streak tracker: the last read of the row and its answers

dbVars == <<users, sessions, completions, streaks, ledger, notifications, skipLimits>>
lvVars == <<lvPoints, lvLevel, lvReport>>
skVars == <<skRow, skDay, skCalls>>
achVars == <<userBadges, userMilestones, ev, nev>>
restVars == <<catalog, skRead>>
calcVars == <<lvVars, skVars, bond, achVars, skipAnswers, restVars>>
vars == <<users, sessions, completions, streaks, ledger, notifications,
          skipLimits, today, req, nreq, calcVars>>

\* ------------------------------------------------------------- helpers
RECURSIVE SumAmount(_)
SumAmount(rows) ==
    IF rows = <<>> THEN 0 ELSE rows[1].amount + SumAmount(Tail(rows))

RECURSIVE SumPoints(_)
SumPoints(rows) ==
    IF rows = <<>> THEN 0 ELSE rows[1].points_earned + SumPoints(Tail(rows))

RowsOf(table, u) == SelectSeq(table, LAMBDA r : r.user = u)

Max(a, b) == IF a >= b THEN a ELSE b

\* ------------------------------------------------------------ row shapes
NewUser ==
    [partner |-> NoUser, total_points |-> 0, current_level |-> 1,
     coins |-> 0, is_online |-> FALSE]

\* A Notification row as created: is_read False, read_at null.
NewNotification(u, t) ==
    [user |-> u, notification_type |-> t, is_read |-> FALSE,
     read_at |-> NoDate]

NewStreak(u) ==
    [user |-> u, current_streak |-> 0, longest_streak |-> 0,
     last_activity_date |-> NoDate, total_active_days |-> 0,
     streak_start_date |-> NoDate]

NoSession == [user |-> NoUser, activity |-> "none", status |-> "none"]
NoStreak == [pk |-> 0, row |-> NewStreak(NoUser)]

IdleReq ==
    [pc |-> "idle", kind |-> "none", caller |-> NoUser, res |-> "none",
     me |-> NewUser, other |-> NewUser, code |-> NoUser,
     sid |-> 0, activity |-> "none", rating |-> 0, cost |-> 0,
     mode |-> "solo", ses |-> NoSession, stk |-> NoStreak,
     skips |-> 0, day |-> NoDate, item |-> "none",
     points_earned |-> 0, coins_earned |-> 0, client_points |-> 0]

\* The activity catalogue (table activities).
DefaultRewards ==
    [points_reward |-> PointsReward, coins_reward |-> CoinsReward]

activity_row(a) ==
    [points_reward |-> catalog[a].points_reward,
     coins_reward |-> catalog[a].coins_reward,
     is_premium |-> a \in PremiumActivities,
     unlock_cost_coins |-> IF a \in PremiumActivities THEN UnlockCost ELSE 0]

\* ------------------------------------------------------- level calculator
\* levelFor with the second threshold one point early.
levelForEarlyTwo(total_points) ==
    IF total_points >= 3001 THEN 4
    ELSE IF total_points >= 1501 THEN 3
    ELSE IF total_points >= 500 THEN 2
    ELSE 1

\* The if-chain of ActivityCompletionSerializer.create.
levelFor(total_points) ==
    IF total_points >= 3001 THEN 4
    ELSE IF total_points >= 1501 THEN 3
    ELSE IF total_points >= 501 THEN 2
    ELSE 1

\* The table of RewardViewSet.levels; max = -1 stands for None.
level_thresholds ==
    [l \in 1..4 |->
        CASE l = 1 -> [min |-> 0, max |-> 500]
          [] l = 2 -> [min |-> 501, max |-> 1500]
          [] l = 3 -> [min |-> 1501, max |-> 3000]
          [] l = 4 -> [min |-> 3001, max |-> -1]]

\* Python's round(n / d * 100, 2) for n >= 0, d > 0, in hundredths: the
\* nearest integer to n * 10000 / d, a tie going to the even one.
round2(n, d) ==
    LET q == (n * 10000) \div d
        r == (n * 10000) % d
    IN  IF 2 * r < d THEN q
        ELSE IF 2 * r > d THEN q + 1
        ELSE IF q % 2 = 0 THEN q ELSE q + 1

\* No report computed yet for the present totals.
NoReport ==
    [by |-> "none", progress_percentage |-> 0, points_to_next |-> 0,
     next_level |-> 0]

\* levels with the level's maximum as the divisor, not the level's range.
levelsDividedByMax(current_level, total_points) ==
    LET info == level_thresholds[current_level]
    IN  IF info.max # -1
        THEN [by |-> "levels",
              progress_percentage |->
                  round2(total_points - info.min, info.max),
              points_to_next |-> info.max - total_points,
              next_level |-> current_level + 1]
        ELSE [by |-> "levels", progress_percentage |-> 10000,
              points_to_next |-> 0, next_level |-> 0]

\* RewardViewSet.levels: the progress part of the answer; the percentage is
\* in hundredths of a percent, next_level = 0 stands for None.
levels(current_level, total_points) ==
    LET info == level_thresholds[current_level]
    IN  IF info.max # -1
        THEN [by |-> "levels",
              progress_percentage |->
                  round2(total_points - info.min, info.max - info.min),
              points_to_next |-> info.max - total_points,
              next_level |-> current_level + 1]
        ELSE [by |-> "levels", progress_percentage |-> 10000,
              points_to_next |-> 0, next_level |-> 0]

\* UserSerializer.get_level_progress: the same figures for the profile.
get_level_progress(current_level, total_points) ==
    LET current_threshold ==
            IF current_level \in DOMAIN level_thresholds
            THEN level_thresholds[current_level]
            ELSE level_thresholds[1]
    IN  IF current_threshold.max = -1
        THEN [by |-> "get_level_progress", progress_percentage |-> 10000,
              points_to_next |-> 0, next_level |-> 0]
        ELSE [by |-> "get_level_progress",
              progress_percentage |->
                  round2(total_points - current_threshold.min,
                         current_threshold.max - current_threshold.min),
              points_to_next |-> current_threshold.max - total_points,
              next_level |-> current_level + 1]

\* ------------------------------------------------------------ streak
\* update_streak without its already-completed-today branch.
update_streakEveryCall(s, day) ==
    IF s.last_activity_date = NoDate
    THEN [saved |-> TRUE,
          row |-> [s EXCEPT !.current_streak = 1, !.longest_streak = 1,
                            !.last_activity_date = day,
                            !.streak_start_date = day,
                            !.total_active_days = 1]]
    ELSE IF day - s.last_activity_date \in {0, 1}
    THEN [saved |-> TRUE,
          row |-> [s EXCEPT !.current_streak = s.current_streak + 1,
                            !.longest_streak =
                                Max(s.longest_streak, s.current_streak + 1),
                            !.last_activity_date = day,
                            !.total_active_days = s.total_active_days + 1]]
    ELSE [saved |-> TRUE,
          row |-> [s EXCEPT !.current_streak = 1,
                            !.last_activity_date = day,
                            !.streak_start_date = day,
                            !.total_active_days = s.total_active_days + 1]]

\* update_streak counting a gap of two days as consecutive.
update_streakGapTwo(s, day) ==
    IF s.last_activity_date = NoDate
    THEN [saved |-> TRUE,
          row |-> [s EXCEPT !.current_streak = 1, !.longest_streak = 1,
                            !.last_activity_date = day,
                            !.streak_start_date = day,
                            !.total_active_days = 1]]
    ELSE IF s.last_activity_date = day
    THEN [saved |-> FALSE, row |-> s]
    ELSE IF day - s.last_activity_date \in {1, 2}
    THEN [saved |-> TRUE,
          row |-> [s EXCEPT !.current_streak = s.current_streak + 1,
                            !.longest_streak =
                                Max(s.longest_streak, s.current_streak + 1),
                            !.last_activity_date = day,
                            !.total_active_days = s.total_active_days + 1]]
    ELSE [saved |-> TRUE,
          row |-> [s EXCEPT !.current_streak = 1,
                            !.last_activity_date = day,
                            !.streak_start_date = day,
                            !.total_active_days = s.total_active_days + 1]]

\* update_streak leaving longest_streak alone on a consecutive day.
update_streakLongestKept(s, day) ==
    IF s.last_activity_date = NoDate
    THEN [saved |-> TRUE,
          row |-> [s EXCEPT !.current_streak = 1, !.longest_streak = 1,
                            !.last_activity_date = day,
                            !.streak_start_date = day,
                            !.total_active_days = 1]]
    ELSE IF s.last_activity_date = day
    THEN [saved |-> FALSE, row |-> s]
    ELSE IF day - s.last_activity_date = 1
    THEN [saved |-> TRUE,
          row |-> [s EXCEPT !.current_streak = s.current_streak + 1,
                            !.last_activity_date = day,
                            !.total_active_days = s.total_active_days + 1]]
    ELSE [saved |-> TRUE,
          row |-> [s EXCEPT !.current_streak = 1,
                            !.last_activity_date = day,
                            !.streak_start_date = day,
                            !.total_active_days = s.total_active_days + 1]]

\* Streak.update_streak: the row after the call and whether save() ran.
update_streak(s, day) ==
    IF s.last_activity_date = NoDate
    THEN [saved |-> TRUE,
          row |-> [s EXCEPT !.current_streak = 1, !.longest_streak = 1,
                            !.last_activity_date = day,
                            !.streak_start_date = day,
                            !.total_active_days = 1]]
    ELSE IF s.last_activity_date = day
    THEN [saved |-> FALSE, row |-> s]
    ELSE IF day - s.last_activity_date = 1
    THEN [saved |-> TRUE,
          row |-> [s EXCEPT !.current_streak = s.current_streak + 1,
                            !.longest_streak =
                                Max(s.longest_streak, s.current_streak + 1),
                            !.last_activity_date = day,
                            !.total_active_days = s.total_active_days + 1]]
    ELSE [saved |-> TRUE,
          row |-> [s EXCEPT !.current_streak = 1,
                            !.last_activity_date = day,
                            !.streak_start_date = day,
                            !.total_active_days = s.total_active_days + 1]]

\* -------------------------------------------------------- bond score
Min(a, b) == IF a <= b THEN a ELSE b

\* Streak.is_active at date day.
is_active(s, day) ==
    IF s.last_activity_date = NoDate THEN FALSE
    ELSE day - s.last_activity_date <= 1

\* self.streaks.first() under Meta.ordering = ['-current_streak']: the rows
\* the database may return, several when the highest current_streak is tied.
first_streaks(rows) ==
    {rows[i] : i \in {j \in DOMAIN rows :
                        \A k \in DOMAIN rows :
                            rows[k].current_streak <= rows[j].current_streak}}

\* get_current_streak reading the stored figure of an inactive streak too.
get_current_streakStored(streak_obj, has_row, day) ==
    IF has_row THEN streak_obj.current_streak ELSE 0

\* User.get_current_streak, given the row first() returned (if any).
get_current_streak(streak_obj, has_row, day) ==
    IF has_row /\ is_active(streak_obj, day)
    THEN streak_obj.current_streak
    ELSE 0

\* calculate_bond_score without the final cap at 100.
calculate_bond_scoreUncapped(partner, user_completions, partner_completions, streak) ==
    IF partner = NoUser THEN 0
    ELSE LET base_score ==
                 Min((user_completions + partner_completions) * 2, 60)
             streak_score == streak * 2
             consistency_score ==
                 IF user_completions >= 20 /\ partner_completions >= 20
                 THEN 10 ELSE 5
         IN  base_score + streak_score + consistency_score

\* User.calculate_bond_score, given the two filtered counts and the streak.
calculate_bond_score(partner, user_completions, partner_completions, streak) ==
    IF partner = NoUser THEN 0
    ELSE LET base_score ==
                 Min((user_completions + partner_completions) * 2, 60)
             streak_score == Min(streak * 2, 30)
             consistency_score ==
                 IF user_completions >= 20 /\ partner_completions >= 20
                 THEN 10 ELSE 5
         IN  Min(base_score + streak_score + consistency_score, 100)

\* The streak row not read yet.
NoRead ==
    [read |-> FALSE, day |-> NoDate, is_active |-> FALSE,
     current_streak |-> 0, bond_score |-> 0]

\* No score asked for yet.
NoBond ==
    [calculated |-> FALSE, partner |-> NoUser, within |-> 0, before |-> 0,
     partner_within |-> 0, streaks |-> <<>>, streak_obj |-> NewStreak("u1"),
     day |-> 0, score |-> 0]

\* ------------------------------------------------------- achievements
Badges == {"b1"}
Milestones == {"m1"}

CriteriaValue == 1     \* the threshold of every catalog entry

\* The rewards of a catalog entry of either kind (the fields' defaults).
entry_rewards(kind) ==
    IF kind = "badge"
    THEN [points_reward |-> 50, coins_reward |-> 20]
    ELSE [points_reward |-> 100, coins_reward |-> 50]

\* The INSERT of a join row with no unique constraint on its table.
insert_rowUnconstrained(table, row) ==
    [ok |-> TRUE, table |-> Append(table, row)]

\* The INSERT of a join row into a table whose Meta declares
\* unique_together on (user, entry): a duplicate raises IntegrityError.
insert_row(table, row) ==
    IF \E i \in DOMAIN table : table[i] = row
    THEN [ok |-> FALSE, table |-> table]
    ELSE [ok |-> TRUE, table |-> Append(table, row)]

IdleEval ==
    [pc |-> "idle", user |-> NoUser, kind |-> "none", entry |-> "none",
     metric |-> 0, res |-> "none"]

\* ------------------------------------------------------- request plumbing
Set(p, r) == req' = [req EXCEPT ![p] = r]

\* The handler returns: its in-memory objects are dropped; who asked for
\* what, about which session or invitation code, and the answer stay
\* readable until the slot serves another request.
Finish(p, result) ==
    Set(p, [IdleReq EXCEPT !.pc = "done", !.res = result,
                           !.kind = req[p].kind, !.caller = req[p].caller,
                           !.sid = req[p].sid, !.code = req[p].code])

At(p, kind, pc) == req[p].kind = kind /\ req[p].pc = pc

\* A request arrives with its inputs `r`; authentication loads request.user
\* from the users table.
Begin(p, r) ==
    /\ req[p].pc \in {"idle", "done"}
    /\ nreq < MaxRequests
    /\ nreq' = nreq + 1
    /\ Set(p, [r EXCEPT !.me = users[r.caller]])

Call(kind, u, first) ==
    [IdleReq EXCEPT !.kind = kind, !.caller = u, !.pc = first]

\* An answer that refuses the request: a 4xx response or an unhandled
\* exception.
Refused == {"error", "crash"}

Quiescent == \A p \in Procs : req[p].pc \in {"idle", "done"}

\* --------------------------------------------------------------- Init
Init ==
    /\ users = [u \in Users |-> NewUser]
    /\ sessions = <<>>
    /\ completions = <<>>
    /\ streaks = <<>>
    /\ ledger = <<>>
    /\ notifications = <<>>
    /\ skipLimits = [k \in Users \X Days |-> 0]
    /\ today = 1
    /\ req = [p \in Procs |-> IdleReq]
    /\ nreq = 0
    /\ lvPoints = 0
    /\ lvLevel = 1
    /\ lvReport = NoReport
    /\ skRow = NewStreak("u1")
    /\ skDay = NoDate
    /\ skCalls = 0
    /\ bond = NoBond
    /\ userBadges = <<>>
    /\ userMilestones = <<>>
    /\ ev = [p \in Procs |-> IdleEval]
    /\ nev = 0
    /\ skipAnswers = [k \in Users \X Days |-> 0]
    /\ catalog = [a \in Activities \cup PremiumActivities |-> DefaultRewards]
    /\ skRead = NoRead

\* ------------------------------------------------------------- the clock
Tick ==
    /\ today < MaxDay
    /\ today' = today + 1
    /\ UNCHANGED <<dbVars, req, nreq, calcVars>>

\* A statement of a handler raises (a persistence failure): the exception
\* propagates, the request is answered 500, and what the earlier statements
\* committed stays committed.  The two steps that on their refusing branch
\* execute no statement cannot raise there.
Fail(p) ==
    /\ req[p].pc \notin {"idle", "done"}
    /\ ~ (At(p, "spend", "validate")
            /\ (req[p].cost < 1 \/ req[p].me.coins < req[p].cost))
    /\ ~ (At(p, "login", "save") /\ req[p].res = "denied")
    /\ Finish(p, "crash")
    /\ UNCHANGED <<dbVars, today, nreq, calcVars>>

\* ------------------------------------------- POST rewards/spend-coins
BeginSpend(p, U) ==
    \E u \in U, c \in Costs :
        /\ Begin(p, [Call("spend", u, "validate") EXCEPT !.cost = c])
        /\ UNCHANGED <<dbVars, today, calcVars>>

\* A spend with item_type = 'unlock_activity', item_id a premium activity
\* and cost that activity's unlock_cost_coins.
BeginUnlock(p, U) ==
    \E u \in U, a \in PremiumActivities :
        /\ Begin(p, [Call("spend", u, "validate") EXCEPT
                        !.cost = activity_row(a).unlock_cost_coins,
                        !.item = a])
        /\ UNCHANGED <<dbVars, today, calcVars>>

\* SpendDeduct without the balance check of CoinSpendSerializer.validate.
SpendDeductUnchecked(p) ==
    /\ At(p, "spend", "validate")
    /\ LET r == req[p] IN
        IF r.cost < 1
        THEN /\ Finish(p, "error")
             /\ UNCHANGED users
        ELSE LET me == [r.me EXCEPT !.coins = r.me.coins - r.cost] IN
             /\ users' = [users EXCEPT ![r.caller] = me]
             /\ Set(p, [r EXCEPT !.me = me, !.pc = "ledger"])
    /\ UNCHANGED <<sessions, completions, streaks, ledger, notifications,
                   skipLimits, today, nreq, calcVars>>

\* CoinSpendSerializer (cost >= 1, user.coins >= cost), then
\* user.coins -= cost; user.save().
SpendDeduct(p) ==
    /\ At(p, "spend", "validate")
    /\ LET r == req[p] IN
        IF r.cost < 1 \/ r.me.coins < r.cost
        THEN /\ Finish(p, "error")
             /\ UNCHANGED users
        ELSE LET me == [r.me EXCEPT !.coins = r.me.coins - r.cost] IN
             /\ users' = [users EXCEPT ![r.caller] = me]
             /\ Set(p, [r EXCEPT !.me = me, !.pc = "ledger"])
    /\ UNCHANGED <<sessions, completions, streaks, ledger, notifications,
                   skipLimits, today, nreq, calcVars>>

\* CoinTransaction.objects.create(amount=-cost, balance_after=user.coins).
SpendRecord(p) ==
    /\ At(p, "spend", "ledger")
    /\ LET r == req[p] IN
        ledger' = Append(ledger,
            [user |-> r.caller, transaction_type |-> "spent_unlock_activity",
             amount |-> 0 - r.cost, balance_after |-> r.me.coins,
             related_object_id |-> r.item, created_at |-> today])
    /\ Finish(p, "ok")
    /\ UNCHANGED <<users, sessions, completions, streaks, notifications,
                   skipLimits, today, nreq, calcVars>>

\* ------------------------------------- POST rewards/claim-daily-bonus
BeginBonus(p, U) ==
    \E u \in U :
        /\ Begin(p, Call("bonus", u, "check"))
        /\ UNCHANGED <<dbVars, today, calcVars>>

\* already_claimed = CoinTransaction ... filter(created_at__date=today).exists()
BonusCheck(p) ==
    /\ At(p, "bonus", "check")
    /\ LET r == req[p] IN
        IF \E i \in 1..Len(ledger) :
              /\ ledger[i].user = r.caller
              /\ ledger[i].transaction_type = "earned_daily_bonus"
              /\ ledger[i].created_at = today
        THEN Finish(p, "error")
        ELSE Set(p, [r EXCEPT !.pc = "save"])
    /\ UNCHANGED <<dbVars, today, nreq, calcVars>>

\* user.coins += bonus_coins; user.save().
BonusSave(p) ==
    /\ At(p, "bonus", "save")
    /\ LET r == req[p]
           me == [r.me EXCEPT !.coins = r.me.coins + BonusCoins] IN
        /\ users' = [users EXCEPT ![r.caller] = me]
        /\ Set(p, [r EXCEPT !.me = me, !.pc = "ledger"])
    /\ UNCHANGED <<sessions, completions, streaks, ledger, notifications,
                   skipLimits, today, nreq, calcVars>>

BonusRecord(p) ==
    /\ At(p, "bonus", "ledger")
    /\ LET r == req[p] IN
        ledger' = Append(ledger,
            [user |-> r.caller, transaction_type |-> "earned_daily_bonus",
             amount |-> BonusCoins, balance_after |-> r.me.coins,
             related_object_id |-> "none", created_at |-> today])
    /\ Finish(p, "ok")
    /\ UNCHANGED <<users, sessions, completions, streaks, notifications,
                   skipLimits, today, nreq, calcVars>>

\* ------------------------------------------- POST activities/{id}/start
BeginStart(p, U) ==
    \E u \in U, a \in Activities, m \in Modes :
        /\ Len(sessions)
             + Cardinality({q \in Procs : req[q].kind = "start"
                                          /\ req[q].pc \notin {"idle", "done"}})
             < MaxSessions
        /\ Begin(p, [Call("start", u, "premium") EXCEPT !.activity = a,
                                                        !.mode = m])
        /\ UNCHANGED <<dbVars, today, calcVars>>

\* A start of a premium activity.
BeginStartPremium(p, U) ==
    \E u \in U, a \in PremiumActivities, m \in Modes :
        /\ Len(sessions)
             + Cardinality({q \in Procs : req[q].kind = "start"
                                          /\ req[q].pc \notin {"idle", "done"}})
             < MaxSessions
        /\ Begin(p, [Call("start", u, "premium") EXCEPT !.activity = a,
                                                        !.mode = m])
        /\ UNCHANGED <<dbVars, today, calcVars>>

\* The premium gate: 402 unless a completion exists or the coins suffice.
StartPremium(p) ==
    /\ At(p, "start", "premium")
    /\ LET r == req[p]
           a == activity_row(r.activity)
           is_unlocked == \E i \in 1..Len(completions) :
                              /\ completions[i].user = r.caller
                              /\ completions[i].activity = r.activity IN
        IF a.is_premium /\ ~is_unlocked /\ r.me.coins < a.unlock_cost_coins
        THEN Finish(p, "error")
        ELSE Set(p, [r EXCEPT !.pc = "existing"])
    /\ UNCHANGED <<dbVars, today, nreq, calcVars>>

\* existing_session = ...filter(status__in=['started', 'in_progress']).first()
StartExisting(p) ==
    /\ At(p, "start", "existing")
    /\ LET r == req[p] IN
        IF \E i \in 1..Len(sessions) :
              /\ sessions[i].user = r.caller
              /\ sessions[i].activity = r.activity
              /\ sessions[i].status \in OpenStatuses
        THEN Finish(p, "ok")
        ELSE Set(p, [r EXCEPT !.pc = "create"])
    /\ UNCHANGED <<dbVars, today, nreq, calcVars>>

StartCreate(p) ==
    /\ At(p, "start", "create")
    /\ LET r == req[p] IN
        /\ sessions' = Append(sessions,
              [user |-> r.caller, activity |-> r.activity,
               status |-> "started"])
        /\ IF r.mode = "together" /\ r.me.partner # NoUser
           THEN Set(p, [r EXCEPT !.pc = "notify"])
           ELSE Finish(p, "ok")
    /\ UNCHANGED <<users, completions, streaks, ledger, notifications,
                   skipLimits, today, nreq, calcVars>>

StartNotify(p) ==
    /\ At(p, "start", "notify")
    /\ notifications' = Append(notifications,
          NewNotification(req[p].me.partner, "partner_activity"))
    /\ Finish(p, "ok")
    /\ UNCHANGED <<users, sessions, completions, streaks, ledger,
                   skipLimits, today, nreq, calcVars>>

\* -------------------------------------------- POST activities/{id}/skip
BeginSkip(p, U) ==
    \E u \in U, a \in Activities :
        /\ Begin(p, [Call("skip", u, "limit") EXCEPT !.activity = a])
        /\ UNCHANGED <<dbVars, today, calcVars>>

\* SkipLimit.objects.get_or_create(user, date=today); can_skip().
SkipLimitCheck(p) ==
    /\ At(p, "skip", "limit")
    /\ LET r == req[p]
           used == skipLimits[<<r.caller, today>>] IN
        IF used < MaxSkipsPerDay
        THEN Set(p, [r EXCEPT !.pc = "count", !.skips = used, !.day = today])
        ELSE Finish(p, "error")
    /\ UNCHANGED <<dbVars, today, nreq, calcVars>>

\* skip_limit.skips_used += 1; skip_limit.save().
SkipCount(p) ==
    /\ At(p, "skip", "count")
    /\ LET r == req[p] IN
        /\ skipLimits' = [skipLimits EXCEPT ![<<r.caller, r.day>>] = r.skips + 1]
        /\ Set(p, [r EXCEPT !.pc = "sessions", !.skips = r.skips + 1])
    /\ UNCHANGED <<users, sessions, completions, streaks, ledger,
                   notifications, today, nreq, calcVars>>

\* ActivitySession ... filter(open).update(status='skipped').
SkipSessions(p) ==
    /\ At(p, "skip", "sessions")
    /\ LET r == req[p] IN
        sessions' = [i \in 1..Len(sessions) |->
            IF /\ sessions[i].user = r.caller
               /\ sessions[i].activity = r.activity
               /\ sessions[i].status \in OpenStatuses
            THEN [sessions[i] EXCEPT !.status = "skipped"]
            ELSE sessions[i]]
    /\ Finish(p, "ok")
    /\ skipAnswers' = [skipAnswers EXCEPT ![<<req[p].caller, req[p].day>>] = @ + 1]
    /\ UNCHANGED <<users, completions, streaks, ledger, notifications,
                   skipLimits, today, nreq, lvVars, skVars, bond, achVars,
                   restVars>>

\* ---------------------------------------- POST activities/{id}/complete
BeginComplete(p, U) ==
    \E u \in U, a \in Activities, s \in 1..MaxSessions, g \in Ratings :
        /\ Begin(p, [Call("complete", u, "find") EXCEPT !.activity = a,
                                                        !.sid = s,
                                                        !.rating = g])
        /\ UNCHANGED <<dbVars, today, calcVars>>

\* A complete request whose body also carries points_earned and
\* coins_earned.
BeginCompleteForged(p, U) ==
    \E u \in U, a \in Activities, s \in 1..MaxSessions :
        /\ Begin(p, [Call("complete", u, "find") EXCEPT !.activity = a,
                                                        !.sid = s,
                                                        !.rating = 3,
                                                        !.client_points = 999])
        /\ UNCHANGED <<dbVars, today, calcVars>>

\* serializer.is_valid (rating in 1..5), then
\* ActivitySession.objects.get(id=session_id, user=request.user).
CompleteFind(p) ==
    /\ At(p, "complete", "find")
    /\ LET r == req[p] IN
        IF \/ r.rating < 1 \/ r.rating > 5
           \/ r.sid \notin 1..Len(sessions)
           \/ sessions[r.sid].user # r.caller
        THEN Finish(p, "error")
        ELSE Set(p, [r EXCEPT !.pc = "insert", !.ses = sessions[r.sid]])
    /\ UNCHANGED <<dbVars, today, nreq, calcVars>>

\* CompleteInsert with `session` a plain foreign key: no unique column.
CompleteInsertNotUnique(p) ==
    /\ At(p, "complete", "insert")
    /\ LET r == req[p]
           a == activity_row(r.ses.activity) IN
        /\ completions' = Append(completions,
              [user |-> r.caller, activity |-> r.ses.activity,
               session |-> r.sid,
               points_earned |-> a.points_reward,
               coins_earned |-> a.coins_reward,
               completed_at |-> today])
        /\ Set(p, [r EXCEPT !.pc = "session",
                            !.points_earned = a.points_reward,
                            !.coins_earned = a.coins_reward])
    /\ UNCHANGED <<users, sessions, streaks, ledger, notifications,
                   skipLimits, today, nreq, calcVars>>

\* CompleteInsert with points_earned and coins_earned writable: the values
\* of the request body, when it carries them, reach the row.
CompleteInsertClientRewards(p) ==
    /\ At(p, "complete", "insert")
    /\ LET r == req[p]
           a == activity_row(r.ses.activity)
           pts == IF r.client_points # 0 THEN r.client_points
                  ELSE a.points_reward
           cns == IF r.client_points # 0 THEN r.client_points
                  ELSE a.coins_reward IN
        IF \E i \in 1..Len(completions) : completions[i].session = r.sid
        THEN /\ Finish(p, "crash")
             /\ UNCHANGED completions
        ELSE /\ completions' = Append(completions,
                    [user |-> r.caller, activity |-> r.ses.activity,
                     session |-> r.sid,
                     points_earned |-> pts,
                     coins_earned |-> cns,
                     completed_at |-> today])
             /\ Set(p, [r EXCEPT !.pc = "session",
                                 !.points_earned = pts,
                                 !.coins_earned = cns])
    /\ UNCHANGED <<users, sessions, streaks, ledger, notifications,
                   skipLimits, today, nreq, calcVars>>

\* completion = super().create(validated_data); the one-to-one `session`
\* column is unique, so a second row for the session raises IntegrityError.
CompleteInsert(p) ==
    /\ At(p, "complete", "insert")
    /\ LET r == req[p]
           a == activity_row(r.ses.activity) IN
        IF \E i \in 1..Len(completions) : completions[i].session = r.sid
        THEN /\ Finish(p, "crash")
             /\ UNCHANGED completions
        ELSE /\ completions' = Append(completions,
                    [user |-> r.caller, activity |-> r.ses.activity,
                     session |-> r.sid,
                     points_earned |-> a.points_reward,
                     coins_earned |-> a.coins_reward,
                     completed_at |-> today])
             /\ Set(p, [r EXCEPT !.pc = "session",
                                 !.points_earned = a.points_reward,
                                 !.coins_earned = a.coins_reward])
    /\ UNCHANGED <<users, sessions, streaks, ledger, notifications,
                   skipLimits, today, nreq, calcVars>>

\* session.status = 'completed'; session.save().
CompleteSession(p) ==
    /\ At(p, "complete", "session")
    /\ LET r == req[p] IN
        /\ sessions' = [sessions EXCEPT
                           ![r.sid] = [r.ses EXCEPT !.status = "completed"]]
        /\ Set(p, [r EXCEPT !.pc = "user"])
    /\ UNCHANGED <<users, completions, streaks, ledger, notifications,
                   skipLimits, today, nreq, calcVars>>

\* user.total_points += ...; user.coins += ...; level; user.save().
\* CompleteUser with the level taken from the points before the addition.
CompleteUserLevelBefore(p) ==
    /\ At(p, "complete", "user")
    /\ LET r == req[p]
           pts == r.me.total_points + r.points_earned
           me == [r.me EXCEPT !.total_points = pts,
                              !.coins = r.me.coins + r.coins_earned,
                              !.current_level = levelFor(r.me.total_points)] IN
        /\ users' = [users EXCEPT ![r.caller] = me]
        /\ Set(p, [r EXCEPT !.me = me, !.pc = "streak"])
    /\ UNCHANGED <<sessions, completions, streaks, ledger, notifications,
                   skipLimits, today, nreq, calcVars>>

CompleteUser(p) ==
    /\ At(p, "complete", "user")
    /\ LET r == req[p]
           pts == r.me.total_points + r.points_earned
           me == [r.me EXCEPT !.total_points = pts,
                              !.coins = r.me.coins + r.coins_earned,
                              !.current_level = levelFor(pts)] IN
        /\ users' = [users EXCEPT ![r.caller] = me]
        /\ Set(p, [r EXCEPT !.me = me, !.pc = "streak"])
    /\ UNCHANGED <<sessions, completions, streaks, ledger, notifications,
                   skipLimits, today, nreq, calcVars>>

\* Streak.objects.get_or_create(user=user): the get.  Streak.user is a plain
\* foreign key, so several rows may match and get() then raises
\* MultipleObjectsReturned.
CompleteStreakGet(p) ==
    /\ At(p, "complete", "streak")
    /\ LET r == req[p]
           mine == {i \in 1..Len(streaks) : streaks[i].user = r.caller} IN
        IF mine = {}
        THEN Set(p, [r EXCEPT !.pc = "streak_create"])
        ELSE IF Cardinality(mine) = 1
        THEN LET i == CHOOSE i \in mine : TRUE IN
             Set(p, [r EXCEPT !.pc = "streak_update",
                              !.stk = [pk |-> i, row |-> streaks[i]]])
        ELSE Finish(p, "crash")
    /\ UNCHANGED <<dbVars, today, nreq, calcVars>>

\* get_or_create: the create after a get that found nothing.
CompleteStreakCreate(p) ==
    /\ At(p, "complete", "streak_create")
    /\ LET r == req[p] IN
        /\ streaks' = Append(streaks, NewStreak(r.caller))
        /\ Set(p, [r EXCEPT !.pc = "streak_update",
                            !.stk = [pk |-> Len(streaks) + 1,
                                     row |-> NewStreak(r.caller)]])
    /\ UNCHANGED <<users, sessions, completions, ledger, notifications,
                   skipLimits, today, nreq, calcVars>>

\* streak.update_streak()
CompleteStreakUpdate(p) ==
    /\ At(p, "complete", "streak_update")
    /\ LET r == req[p]
           upd == update_streak(r.stk.row, today) IN
        /\ streaks' = IF upd.saved
                      THEN [streaks EXCEPT ![r.stk.pk] = upd.row]
                      ELSE streaks
        /\ Set(p, [r EXCEPT !.pc = "ledger", !.stk = NoStreak])
    /\ UNCHANGED <<users, sessions, completions, ledger, notifications,
                   skipLimits, today, nreq, calcVars>>

\* ------------------------------------------- admin: the activity table
RewardValues == {PointsReward, 2 * PointsReward}

\* ActivityAdmin: an administrator saves an activity with other rewards.
EditActivity ==
    /\ \E a \in Activities, v \in RewardValues :
          /\ catalog[a].points_reward # v
          /\ catalog' = [catalog EXCEPT ![a] = [points_reward |-> v,
                                                 coins_reward |-> v]]
    /\ UNCHANGED <<dbVars, today, req, nreq, lvVars, skVars, bond, achVars,
                   skipAnswers, skRead>>

\* ------------------------------------------------ GET progress/streak
BeginGetStreak(p, U) ==
    \E u \in U :
        /\ Begin(p, Call("get_streak", u, "streak"))
        /\ UNCHANGED <<dbVars, today, calcVars>>

\* Streak.objects.get_or_create(user=request.user): the get.
GetStreakGet(p) ==
    /\ At(p, "get_streak", "streak")
    /\ LET r == req[p]
           mine == {i \in 1..Len(streaks) : streaks[i].user = r.caller} IN
        IF mine = {}
        THEN Set(p, [r EXCEPT !.pc = "streak_create"])
        ELSE IF Cardinality(mine) = 1
        THEN Finish(p, "ok")
        ELSE Finish(p, "crash")
    /\ UNCHANGED <<dbVars, today, nreq, calcVars>>

\* get_or_create: the create after a get that found nothing.
GetStreakCreate(p) ==
    /\ At(p, "get_streak", "streak_create")
    /\ streaks' = Append(streaks, NewStreak(req[p].caller))
    /\ Finish(p, "ok")
    /\ UNCHANGED <<users, sessions, completions, ledger, notifications,
                   skipLimits, today, nreq, calcVars>>

\* CoinTransaction.objects.create(transaction_type='earned_activity', ...)
CompleteRecord(p) ==
    /\ At(p, "complete", "ledger")
    /\ LET r == req[p] IN
        /\ ledger' = Append(ledger,
              [user |-> r.caller, transaction_type |-> "earned_activity",
               amount |-> r.coins_earned, balance_after |-> r.me.coins,
               related_object_id |-> r.ses.activity, created_at |-> today])
        /\ IF r.me.partner # NoUser
           THEN Set(p, [r EXCEPT !.pc = "notify"])
           ELSE Finish(p, "ok")
    /\ UNCHANGED <<users, sessions, completions, streaks, notifications,
                   skipLimits, today, nreq, calcVars>>

\* The view notifies the partner, then answers 200.
CompleteNotify(p) ==
    /\ At(p, "complete", "notify")
    /\ notifications' = Append(notifications,
          NewNotification(req[p].me.partner, "partner_activity"))
    /\ Finish(p, "ok")
    /\ UNCHANGED <<users, sessions, completions, streaks, ledger,
                   skipLimits, today, nreq, calcVars>>

\* --------------------------------------------- POST users/partner/link
\* The invitation code of user u is written u; code_owner is
\* User.objects.get(partner_invitation_code=code).
code_owner(c) == IF c \in Users THEN c ELSE NoUser

BeginLink(p, U) ==
    \E u \in U, c \in Codes :
        /\ Begin(p, [Call("link", u, "check") EXCEPT !.code = c])
        /\ UNCHANGED <<dbVars, today, calcVars>>

\* LinkCheck without the guard on the code owner's partner.
LinkCheckOwnerUnguarded(p) ==
    /\ At(p, "link", "check")
    /\ LET r == req[p]
           owner == code_owner(r.code) IN
        IF \/ owner = NoUser
           \/ r.me.partner # NoUser
           \/ owner = r.caller
        THEN Finish(p, "error")
        ELSE Set(p, [r EXCEPT !.pc = "save_me", !.other = users[owner]])
    /\ UNCHANGED <<dbVars, today, nreq, calcVars>>

\* The guards of partner_link, up to the read of the code's owner.
LinkCheck(p) ==
    /\ At(p, "link", "check")
    /\ LET r == req[p]
           owner == code_owner(r.code) IN
        IF \/ owner = NoUser                    \* unknown code: 400 / 404
           \/ r.me.partner # NoUser             \* caller already linked
           \/ owner = r.caller                  \* cannot link to yourself
           \/ users[owner].partner # NoUser     \* owner already linked
        THEN Finish(p, "error")
        ELSE Set(p, [r EXCEPT !.pc = "save_me", !.other = users[owner]])
    /\ UNCHANGED <<dbVars, today, nreq, calcVars>>

\* request.user.partner = partner; request.user.save()
LinkSaveMe(p) ==
    /\ At(p, "link", "save_me")
    /\ LET r == req[p]
           me == [r.me EXCEPT !.partner = code_owner(r.code)] IN
        /\ users' = [users EXCEPT ![r.caller] = me]
        /\ Set(p, [r EXCEPT !.me = me, !.pc = "save_partner"])
    /\ UNCHANGED <<sessions, completions, streaks, ledger, notifications,
                   skipLimits, today, nreq, calcVars>>

\* partner.partner = request.user; partner.save()
LinkSavePartner(p) ==
    /\ At(p, "link", "save_partner")
    /\ LET r == req[p]
           other == [r.other EXCEPT !.partner = r.caller] IN
        /\ users' = [users EXCEPT ![code_owner(r.code)] = other]
        /\ Set(p, [r EXCEPT !.other = other, !.pc = "notify"])
    /\ UNCHANGED <<sessions, completions, streaks, ledger, notifications,
                   skipLimits, today, nreq, calcVars>>

\* Notification.objects.create(user=partner, 'partner_joined'); 200.
LinkNotify(p) ==
    /\ At(p, "link", "notify")
    /\ notifications' = Append(notifications,
          NewNotification(code_owner(req[p].code), "partner_joined"))
    /\ Finish(p, "ok")
    /\ UNCHANGED <<users, sessions, completions, streaks, ledger,
                   skipLimits, today, nreq, calcVars>>

\* ----------------------------------------- DELETE users/partner/unlink
BeginUnlink(p, U) ==
    \E u \in U :
        /\ Begin(p, Call("unlink", u, "check"))
        /\ UNCHANGED <<dbVars, today, calcVars>>

\* if not request.user.partner: 400; partner = request.user.partner
UnlinkCheck(p) ==
    /\ At(p, "unlink", "check")
    /\ LET r == req[p] IN
        IF r.me.partner = NoUser
        THEN Finish(p, "error")
        ELSE Set(p, [r EXCEPT !.pc = "save_me", !.other = users[r.me.partner],
                              !.code = r.me.partner])
    /\ UNCHANGED <<dbVars, today, nreq, calcVars>>

UnlinkSaveMe(p) ==
    /\ At(p, "unlink", "save_me")
    /\ LET r == req[p]
           me == [r.me EXCEPT !.partner = NoUser] IN
        /\ users' = [users EXCEPT ![r.caller] = me]
        /\ Set(p, [r EXCEPT !.me = me, !.pc = "save_partner"])
    /\ UNCHANGED <<sessions, completions, streaks, ledger, notifications,
                   skipLimits, today, nreq, calcVars>>

UnlinkSavePartner(p) ==
    /\ At(p, "unlink", "save_partner")
    /\ LET r == req[p] IN
        users' = [users EXCEPT ![r.code] = [r.other EXCEPT !.partner = NoUser]]
    /\ Finish(p, "ok")
    /\ UNCHANGED <<sessions, completions, streaks, ledger, notifications,
                   skipLimits, today, nreq, calcVars>>

\* ------------------- POST notifications/{id}/mark-read, mark-all-read
\* The primary keys a client may ask for: a row's position in the table.
NotificationIds == 1..MaxRequests

BeginMarkRead(p, U) ==
    \E u \in U, pk \in NotificationIds :
        /\ Begin(p, [Call("mark_read", u, "get") EXCEPT !.sid = pk])
        /\ UNCHANGED <<dbVars, today, calcVars>>

\* mark_read that saves whether the notification was read or not.
MarkReadGetUnguarded(p) ==
    /\ At(p, "mark_read", "get")
    /\ LET r == req[p] IN
        IF \/ r.sid \notin DOMAIN notifications
           \/ notifications[r.sid].user # r.caller
        THEN Finish(p, "error")
        ELSE Set(p, [r EXCEPT !.pc = "save"])
    /\ UNCHANGED <<dbVars, today, nreq, calcVars>>

\* notification = self.get_object(): 404 unless the row is the caller's;
\* if it is read already the view answers 200 at once.
MarkReadGet(p) ==
    /\ At(p, "mark_read", "get")
    /\ LET r == req[p] IN
        IF \/ r.sid \notin DOMAIN notifications
           \/ notifications[r.sid].user # r.caller
        THEN Finish(p, "error")
        ELSE IF notifications[r.sid].is_read
        THEN Finish(p, "ok")
        ELSE Set(p, [r EXCEPT !.pc = "save"])
    /\ UNCHANGED <<dbVars, today, nreq, calcVars>>

\* notification.is_read = True; notification.read_at = now; save().
MarkReadSave(p) ==
    /\ At(p, "mark_read", "save")
    /\ notifications' = [notifications EXCEPT
                            ![req[p].sid].is_read = TRUE,
                            ![req[p].sid].read_at = today]
    /\ Finish(p, "ok")
    /\ UNCHANGED <<users, sessions, completions, streaks, ledger,
                   skipLimits, today, nreq, calcVars>>

BeginMarkAllRead(p, U) ==
    \E u \in U :
        /\ Begin(p, Call("mark_all_read", u, "update"))
        /\ UNCHANGED <<dbVars, today, calcVars>>

\* filter(user=request.user, is_read=False).update(is_read=True,
\* read_at=now): one statement.
MarkAllRead(p) ==
    /\ At(p, "mark_all_read", "update")
    /\ notifications' =
          [i \in DOMAIN notifications |->
              IF /\ notifications[i].user = req[p].caller
                 /\ ~notifications[i].is_read
              THEN [notifications[i] EXCEPT !.is_read = TRUE,
                                            !.read_at = today]
              ELSE notifications[i]]
    /\ Finish(p, "ok")
    /\ UNCHANGED <<users, sessions, completions, streaks, ledger,
                   skipLimits, today, nreq, calcVars>>

\* -------------------------- POST auth/login, auth/logout, PUT settings
BeginLogin(p, U) ==
    \E u \in U, password_ok \in BOOLEAN :
        /\ Begin(p, [Call("login", u, "save") EXCEPT
                        !.res = IF password_ok THEN "none" ELSE "denied"])
        /\ UNCHANGED <<dbVars, today, calcVars>>

\* check_password, then user.is_online = True; user.save()
LoginSave(p) ==
    /\ At(p, "login", "save")
    /\ LET r == req[p] IN
        IF r.res = "denied"
        THEN /\ Finish(p, "error")
             /\ UNCHANGED users
        ELSE /\ users' = [users EXCEPT
                             ![r.caller] = [r.me EXCEPT !.is_online = TRUE]]
             /\ Finish(p, "ok")
    /\ UNCHANGED <<sessions, completions, streaks, ledger, notifications,
                   skipLimits, today, nreq, calcVars>>

BeginLogout(p, U) ==
    \E u \in U :
        /\ Begin(p, Call("logout", u, "save"))
        /\ UNCHANGED <<dbVars, today, calcVars>>

\* request.user.is_online = False; request.user.save()
LogoutSave(p) ==
    /\ At(p, "logout", "save")
    /\ users' = [users EXCEPT
                    ![req[p].caller] = [req[p].me EXCEPT !.is_online = FALSE]]
    /\ Finish(p, "ok")
    /\ UNCHANGED <<sessions, completions, streaks, ledger, notifications,
                   skipLimits, today, nreq, calcVars>>

BeginSettings(p, U) ==
    \E u \in U :
        /\ Begin(p, Call("settings", u, "save"))
        /\ UNCHANGED <<dbVars, today, calcVars>>

\* setattr(user, 'preferred_language' / 'theme', ...); user.save()
SettingsSave(p) ==
    /\ At(p, "settings", "save")
    /\ users' = [users EXCEPT ![req[p].caller] = req[p].me]
    /\ Finish(p, "ok")
    /\ UNCHANGED <<sessions, completions, streaks, ledger, notifications,
                   skipLimits, today, nreq, calcVars>>

\* ------------------------------------------------- the level calculator
\* A completion worth k points: total_points += k, then the level if-chain.
AddPoints ==
    \E k \in {1, 10, 499} :
        /\ lvPoints + k <= MaxPoints
        /\ lvPoints' = lvPoints + k
        /\ lvLevel' = levelFor(lvPoints + k)
        /\ lvReport' = NoReport
        /\ UNCHANGED <<dbVars, today, req, nreq, skVars, bond, achVars, skipAnswers, restVars>>

\* ---------------------------------------------------- the streak tracker
StreakDays == 1..MaxStreakDay

\* One call of Streak.update_streak with the clock at date d.
UpdateStreak ==
    \E d \in StreakDays :
        /\ skCalls < MaxCalls
        /\ skRow' = update_streak(skRow, d).row
        /\ skDay' = d
        /\ skCalls' = skCalls + 1
        /\ UNCHANGED <<dbVars, today, req, nreq, lvVars, bond, achVars,
                       skipAnswers, restVars>>

\* A read that writes the row back, an inactive streak reset to 0.
ReadStreakResetting ==
    \E d \in StreakDays :
        /\ skRead' = [read |-> TRUE, day |-> d,
                      is_active |-> is_active(skRow, d),
                      current_streak |-> get_current_streak(skRow, TRUE, d),
                      bond_score |-> calculate_bond_score("u2", 0, 0,
                                         get_current_streak(skRow, TRUE, d))]
        /\ skRead' # skRead
        /\ skRow' = IF is_active(skRow, d) THEN skRow
                    ELSE [skRow EXCEPT !.current_streak = 0]
        /\ UNCHANGED <<dbVars, today, req, nreq, lvVars, skDay, skCalls, bond,
                       achVars, skipAnswers, catalog>>

\* One read of the row with the clock at date d: is_active(),
\* get_current_streak() and calculate_bond_score() of a linked user with
\* no completions. None of them calls save().
ReadStreak ==
    \E d \in StreakDays :
        /\ skRead' = [read |-> TRUE, day |-> d,
                      is_active |-> is_active(skRow, d),
                      current_streak |-> get_current_streak(skRow, TRUE, d),
                      bond_score |-> calculate_bond_score("u2", 0, 0,
                                         get_current_streak(skRow, TRUE, d))]
        /\ skRead' # skRead
        /\ UNCHANGED <<dbVars, today, req, nreq, lvVars, skVars, bond, achVars,
                       skipAnswers, catalog>>

\* Streak rows of any content, reachable from a fresh row or not.
AnyStreak ==
    [user : {"u1"}, current_streak : 0..2, longest_streak : 0..2,
     last_activity_date : {NoDate} \cup StreakDays,
     streak_start_date : {NoDate, 1}, total_active_days : 0..2]

\* ------------------------------------------------------ the bond score
BondDay == 3    \* the date the score is calculated on

\* The user's Streak rows: none; one, fresh or with a streak of any length
\* last fed today, yesterday or the day before; or that one and a second
\* with current_streak 3, active or not.
BondStreaks ==
    LET row == {NewStreak("u1")} \cup
               {[NewStreak("u1") EXCEPT !.current_streak = c,
                                        !.longest_streak = c,
                                        !.total_active_days = c,
                                        !.last_activity_date = d] :
                    c \in 1..MaxStreakLen, d \in 1..BondDay}
        second == {[NewStreak("u1") EXCEPT !.current_streak = 3,
                                           !.longest_streak = 3,
                                           !.last_activity_date = d] :
                       d \in {1, 3}}
    IN  {<<>>} \cup {<<r>> : r \in row}
               \cup {<<r, t>> : r \in row, t \in second}

\* One evaluation of user.calculate_bond_score(): `within` and `before`
\* are the user's completions inside and outside the last 30 days.
CalculateBondScore ==
    /\ ~bond.calculated
    /\ \E partner \in {NoUser, "u2"}, within \in 0..MaxCompletions,
          before \in {0, 1}, partner_within \in 0..MaxCompletions,
          rows \in BondStreaks :
        \E streak_obj \in IF rows = <<>> THEN {NewStreak("u1")}
                           ELSE first_streaks(rows) :
            /\ bond' =
                 [calculated |-> TRUE, partner |-> partner,
                  within |-> within, before |-> before,
                  partner_within |-> partner_within, streaks |-> rows,
                  streak_obj |-> streak_obj, day |-> BondDay,
                  score |-> calculate_bond_score(partner, within,
                                partner_within,
                                get_current_streak(streak_obj, rows # <<>>,
                                                   BondDay))]
            /\ UNCHANGED <<dbVars, today, req, nreq, lvVars, skVars, achVars,
                           skipAnswers, restVars>>

\* ------------------------------------------------ achievement evaluator
\* The join table of a kind of catalog entry.
join_table(kind) == IF kind = "badge" THEN userBadges ELSE userMilestones

\* An evaluation of one catalog entry for one user begins, the user's
\* metric for the entry's criteria type having been computed.
EvalBegin(p, U) ==
    /\ ev[p].pc \in {"idle", "done"}
    /\ nev < MaxEvals
    /\ nev' = nev + 1
    /\ \E u \in U, kind \in {"badge", "milestone"}, m \in 0..2 :
        \E e \in IF kind = "badge" THEN Badges ELSE Milestones :
            ev' = [ev EXCEPT ![p] =
                      [pc |-> "check", user |-> u, kind |-> kind,
                       entry |-> e, metric |-> m, res |-> "none"]]
    /\ UNCHANGED <<dbVars, today, req, nreq, lvVars, skVars, bond,
                   userBadges, userMilestones, skipAnswers, restVars>>

\* Below the threshold, or already recorded as unlocked: nothing to do.
EvalCheck(p) ==
    /\ ev[p].pc = "check"
    /\ LET row == [user |-> ev[p].user, entry |-> ev[p].entry]
           table == join_table(ev[p].kind)
       IN  IF ev[p].metric < CriteriaValue
           THEN ev' = [ev EXCEPT ![p].pc = "done", ![p].res = "below"]
           ELSE IF \E i \in DOMAIN table : table[i] = row
           THEN ev' = [ev EXCEPT ![p].pc = "done", ![p].res = "already"]
           ELSE ev' = [ev EXCEPT ![p].pc = "insert"]
    /\ UNCHANGED <<dbVars, today, req, nreq, lvVars, skVars, bond,
                   userBadges, userMilestones, nev, skipAnswers, restVars>>

\* The unlock row is created; a duplicate ends the evaluation.
EvalInsert(p) ==
    /\ ev[p].pc = "insert"
    /\ LET row == [user |-> ev[p].user, entry |-> ev[p].entry]
           ins == insert_row(join_table(ev[p].kind), row)
       IN  /\ IF ev[p].kind = "badge"
              THEN userBadges' = ins.table /\ UNCHANGED userMilestones
              ELSE userMilestones' = ins.table /\ UNCHANGED userBadges
           /\ IF ins.ok
              THEN ev' = [ev EXCEPT ![p].pc = "reward"]
              ELSE ev' = [ev EXCEPT ![p].pc = "done", ![p].res = "crash"]
    /\ UNCHANGED <<dbVars, today, req, nreq, lvVars, skVars, bond, nev,
                   skipAnswers, restVars>>

\* The entry's fixed reward is granted to the user.
EvalReward(p) ==
    /\ ev[p].pc = "reward"
    /\ LET u == ev[p].user
           r == entry_rewards(ev[p].kind)
       IN  users' = [users EXCEPT
                        ![u].total_points = @ + r.points_reward,
                        ![u].coins = @ + r.coins_reward]
    /\ ev' = [ev EXCEPT ![p].pc = "done", ![p].res = "unlocked"]
    /\ UNCHANGED <<sessions, completions, streaks, ledger, notifications,
                   skipLimits, today, req, nreq, lvVars, skVars, bond,
                   userBadges, userMilestones, nev, skipAnswers, restVars>>

EvalStep(p, U) ==
    EvalBegin(p, U) \/ EvalCheck(p) \/ EvalInsert(p) \/ EvalReward(p)

\* GET rewards/levels/ for the present totals.
LevelsReport ==
    /\ lvReport' = levels(lvLevel, lvPoints)
    /\ UNCHANGED <<dbVars, today, req, nreq, lvPoints, lvLevel, skVars, bond, achVars, skipAnswers, restVars>>

\* The level_progress field of the serialized user for the present totals.
ProfileReport ==
    /\ lvReport' = get_level_progress(lvLevel, lvPoints)
    /\ UNCHANGED <<dbVars, today, req, nreq, lvPoints, lvLevel, skVars, bond, achVars, skipAnswers, restVars>>

\* ------------------------------------------------------ specifications
CoinStep(p) ==
    \/ SpendDeduct(p) \/ SpendRecord(p)
    \/ BonusCheck(p) \/ BonusSave(p) \/ BonusRecord(p)

SessionStep(p) ==
    \/ StartPremium(p) \/ StartExisting(p) \/ StartCreate(p) \/ StartNotify(p)
    \/ SkipLimitCheck(p) \/ SkipCount(p) \/ SkipSessions(p)
    \/ CompleteFind(p) \/ CompleteInsert(p) \/ CompleteSession(p)
    \/ CompleteUser(p) \/ CompleteStreakGet(p) \/ CompleteStreakCreate(p)
    \/ CompleteStreakUpdate(p) \/ CompleteRecord(p) \/ CompleteNotify(p)

PartnerStep(p) ==
    \/ LinkCheck(p) \/ LinkSaveMe(p) \/ LinkSavePartner(p) \/ LinkNotify(p)
    \/ UnlinkCheck(p) \/ UnlinkSaveMe(p) \/ UnlinkSavePartner(p)

AccountStep(p) ==
    \/ LoginSave(p) \/ LogoutSave(p) \/ SettingsSave(p)

\* u1 and u2 are a couple: the state after u1 linked with u2's code.
InitCouple ==
    /\ users = [u \in Users |->
                  [NewUser EXCEPT !.partner = IF u = "u1" THEN "u2"
                                              ELSE IF u = "u2" THEN "u1"
                                              ELSE NoUser]]
    /\ sessions = <<>>
    /\ completions = <<>>
    /\ streaks = <<>>
    /\ ledger = <<>>
    /\ notifications = <<>>
    /\ skipLimits = [k \in Users \X Days |-> 0]
    /\ today = 1
    /\ req = [p \in Procs |-> IdleReq]
    /\ nreq = 0
    /\ lvPoints = 0
    /\ lvLevel = 1
    /\ lvReport = NoReport
    /\ skRow = NewStreak("u1")
    /\ skDay = NoDate
    /\ skCalls = 0
    /\ bond = NoBond
    /\ userBadges = <<>>
    /\ userMilestones = <<>>
    /\ ev = [p \in Procs |-> IdleEval]
    /\ nev = 0
    /\ skipAnswers = [k \in Users \X Days |-> 0]
    /\ catalog = [a \in Activities \cup PremiumActivities |-> DefaultRewards]
    /\ skRead = NoRead

One == {"u1"}

\* The rewards and sessions of one user, requests overlapping, every
\* statement succeeding.
Next ==
    \/ Tick
    \/ \E p \in Procs :
        \/ BeginSpend(p, One) \/ BeginBonus(p, One)
        \/ BeginStart(p, One) \/ BeginSkip(p, One) \/ BeginComplete(p, One)
        \/ CoinStep(p) \/ SessionStep(p)

Spec == InitCouple /\ [][Next]_vars

\* The sessions of one user, requests overlapping, statements failing.
SessionNext ==
    \/ Tick
    \/ \E p \in Procs :
        \/ BeginStart(p, One) \/ BeginSkip(p, One) \/ BeginComplete(p, One)
        \/ SessionStep(p) \/ Fail(p)

SessionSpec == InitCouple /\ [][SessionNext]_vars

\* The premium activity of one user: the daily bonus, the unlock payment,
\* start and complete, requests overlapping, every statement succeeding.
PremiumNext ==
    \E p \in Procs :
        \/ BeginBonus(p, One) \/ BeginUnlock(p, One)
        \/ BeginStartPremium(p, One) \/ BeginComplete(p, One)
        \/ CoinStep(p)
        \/ StartPremium(p) \/ StartExisting(p) \/ StartCreate(p)
        \/ StartNotify(p)
        \/ CompleteFind(p) \/ CompleteInsert(p) \/ CompleteSession(p)
        \/ CompleteUser(p) \/ CompleteStreakGet(p) \/ CompleteStreakCreate(p)
        \/ CompleteStreakUpdate(p) \/ CompleteRecord(p) \/ CompleteNotify(p)

PremiumSpec == InitCouple /\ [][PremiumNext]_vars

\* The Streak rows of one user: get-streak, start and complete requests
\* overlapping, every statement succeeding.
StreakRowNext ==
    \/ Tick
    \/ \E p \in Procs :
        \/ BeginGetStreak(p, One) \/ GetStreakGet(p) \/ GetStreakCreate(p)
        \/ BeginStart(p, One) \/ BeginComplete(p, One)
        \/ StartPremium(p) \/ StartExisting(p) \/ StartCreate(p)
        \/ StartNotify(p)
        \/ CompleteFind(p) \/ CompleteInsert(p) \/ CompleteSession(p)
        \/ CompleteUser(p) \/ CompleteStreakGet(p) \/ CompleteStreakCreate(p)
        \/ CompleteStreakUpdate(p) \/ CompleteRecord(p) \/ CompleteNotify(p)

StreakRowSpec == InitCouple /\ [][StreakRowNext]_vars

\* The rewards of completions: start and complete requests of one user
\* overlapping, the catalogue edited in between, every statement succeeding.
RewardsNext ==
    \/ EditActivity
    \/ \E p \in Procs :
        \/ BeginStart(p, One) \/ BeginCompleteForged(p, One)
        \/ StartPremium(p) \/ StartExisting(p) \/ StartCreate(p)
        \/ StartNotify(p)
        \/ CompleteFind(p) \/ CompleteInsert(p) \/ CompleteSession(p)
        \/ CompleteUser(p) \/ CompleteStreakGet(p) \/ CompleteStreakCreate(p)
        \/ CompleteStreakUpdate(p) \/ CompleteRecord(p) \/ CompleteNotify(p)

RewardsSpec == InitCouple /\ [][RewardsNext]_vars

\* The points_reward of the one activity of the catalogue: the default, or
\* enough for one completion to reach level 2, 3 or 4.
LevelRewards == {PointsReward, 501, 1501, 3001}

\* u1 and u2 are a couple and the administrator has set the activity's
\* points_reward.
InitUserRow ==
    /\ users = [u \in Users |->
                  [NewUser EXCEPT !.partner = IF u = "u1" THEN "u2"
                                              ELSE IF u = "u2" THEN "u1"
                                              ELSE NoUser]]
    /\ sessions = <<>>
    /\ completions = <<>>
    /\ streaks = <<>>
    /\ ledger = <<>>
    /\ notifications = <<>>
    /\ skipLimits = [k \in Users \X Days |-> 0]
    /\ today = 1
    /\ req = [p \in Procs |-> IdleReq]
    /\ nreq = 0
    /\ lvPoints = 0
    /\ lvLevel = 1
    /\ lvReport = NoReport
    /\ skRow = NewStreak("u1")
    /\ skDay = NoDate
    /\ skCalls = 0
    /\ bond = NoBond
    /\ userBadges = <<>>
    /\ userMilestones = <<>>
    /\ ev = [p \in Procs |-> IdleEval]
    /\ nev = 0
    /\ skipAnswers = [k \in Users \X Days |-> 0]
    /\ \E v \in LevelRewards :
          catalog = [a \in Activities \cup PremiumActivities |->
                        [points_reward |-> v, coins_reward |-> CoinsReward]]
    /\ skRead = NoRead

\* The User row of one user: start, complete, spend, daily bonus, login
\* and settings requests overlapping, every statement succeeding.
UserRowNext ==
    \E p \in Procs :
        \/ BeginStart(p, One) \/ BeginComplete(p, One)
        \/ BeginSpend(p, One) \/ BeginBonus(p, One)
        \/ BeginLogin(p, One) \/ BeginSettings(p, One)
        \/ StartPremium(p) \/ StartExisting(p) \/ StartCreate(p)
        \/ StartNotify(p)
        \/ CompleteFind(p) \/ CompleteInsert(p) \/ CompleteSession(p)
        \/ CompleteUser(p) \/ CompleteStreakGet(p) \/ CompleteStreakCreate(p)
        \/ CompleteStreakUpdate(p) \/ CompleteRecord(p) \/ CompleteNotify(p)
        \/ CoinStep(p) \/ LoginSave(p) \/ SettingsSave(p)

UserRowSpec == InitUserRow /\ [][UserRowNext]_vars

\* The notifications of a couple: activities started together, mark-read
\* and mark-all-read requests overlapping, every statement succeeding.
NotificationNext ==
    \/ Tick
    \/ \E p \in Procs :
        \/ BeginStart(p, {"u1", "u2"})
        \/ StartPremium(p) \/ StartExisting(p) \/ StartCreate(p)
        \/ StartNotify(p)
        \/ BeginMarkRead(p, {"u1", "u2"}) \/ MarkReadGet(p) \/ MarkReadSave(p)
        \/ BeginMarkAllRead(p, {"u1", "u2"}) \/ MarkAllRead(p)

NotificationSpec == InitCouple /\ [][NotificationNext]_vars

\* Partner links among three users, requests overlapping, every statement
\* succeeding.
PartnerNext ==
    \E p \in Procs :
        \/ BeginLink(p, Users) \/ BeginUnlink(p, Users)
        \/ BeginLogin(p, Users) \/ BeginLogout(p, Users)
        \/ BeginSettings(p, Users) \/ BeginBonus(p, Users)
        \/ PartnerStep(p) \/ AccountStep(p)
        \/ BonusCheck(p) \/ BonusSave(p) \/ BonusRecord(p)

PartnerSpec == Init /\ [][PartnerNext]_vars

\* Every request, served one at a time by one worker, statements failing.
SeqNext ==
    \/ Tick
    \/ BeginLink(1, Users) \/ BeginUnlink(1, Users)
    \/ BeginLogin(1, One) \/ BeginLogout(1, One) \/ BeginSettings(1, One)
    \/ BeginSpend(1, One) \/ BeginBonus(1, One)
    \/ BeginStart(1, One) \/ BeginSkip(1, One) \/ BeginComplete(1, {"u1", "u2"})
    \/ CoinStep(1) \/ SessionStep(1) \/ PartnerStep(1) \/ AccountStep(1)
    \/ Fail(1)

SeqSpec == Init /\ [][SeqNext]_vars

\* The streak tracker alone, from a freshly created row.
StreakNext == UpdateStreak

StreakSpec == Init /\ [][StreakNext]_vars

\* The streak tracker and the reads of its row.
StreakReadNext == UpdateStreak \/ ReadStreak

StreakReadSpec == Init /\ [][StreakReadNext]_vars

\* The streak tracker alone, from any row.
InitAnyStreak ==
    /\ users = [u \in Users |-> NewUser]
    /\ sessions = <<>>
    /\ completions = <<>>
    /\ streaks = <<>>
    /\ ledger = <<>>
    /\ notifications = <<>>
    /\ skipLimits = [k \in Users \X Days |-> 0]
    /\ today = 1
    /\ req = [p \in Procs |-> IdleReq]
    /\ nreq = 0
    /\ lvPoints = 0
    /\ lvLevel = 1
    /\ lvReport = NoReport
    /\ skRow \in AnyStreak
    /\ skDay = NoDate
    /\ skCalls = 0
    /\ bond = NoBond
    /\ userBadges = <<>>
    /\ userMilestones = <<>>
    /\ ev = [p \in Procs |-> IdleEval]
    /\ nev = 0
    /\ skipAnswers = [k \in Users \X Days |-> 0]
    /\ catalog = [a \in Activities \cup PremiumActivities |-> DefaultRewards]
    /\ skRead = NoRead

StreakAnyNext == UpdateStreak

StreakAnySpec == InitAnyStreak /\ [][StreakAnyNext]_vars

\* Achievement evaluations of u1, two of them able to overlap (the
\* completion path and the periodic sweep).
AchievementNext == \E p \in Procs : EvalStep(p, One)

AchievementSpec == Init /\ [][AchievementNext]_vars

\* The bond score alone.
BondNext == CalculateBondScore

BondSpec == Init /\ [][BondNext]_vars

\* The level calculator alone.
LevelNext == AddPoints \/ LevelsReport \/ ProfileReport

LevelSpec == Init /\ [][LevelNext]_vars

\* ================================================================ claims

\* C1 (ledger invariant): whenever no request is in flight, for every user
\* the amounts of the user's CoinTransaction rows sum to the stored coins,
\* and every row's balance_after is the running sum of the amounts up to
\* and including that row.
LedgerInvariant ==
    Quiescent =>
        \A u \in Users :
            LET rows == RowsOf(ledger, u) IN
            /\ SumAmount(rows) = users[u].coins
            /\ \A i \in 1..Len(rows) :
                  rows[i].balance_after = SumAmount(SubSeq(rows, 1, i))

\* C2 (linking is symmetric and exclusive): a partner_link request that
\* answers success leaves caller and code owner pointing at each other, and
\* one whose caller or code owner already has a partner answers an error,
\* changes no partner field and creates no notification.
LinkStepOK(p) ==
    LET r == req[p]
        owner == code_owner(r.code) IN
    (r.kind = "link" /\ r.pc # "done" /\ req'[p] # r) =>
        /\ req'[p].res = "ok" =>
              /\ users'[r.caller].partner = owner
              /\ users'[owner].partner = r.caller
        /\ ( /\ r.pc = "check"
             /\ owner # NoUser
             /\ \/ users[r.caller].partner # NoUser
                \/ users[owner].partner # NoUser )
           => /\ req'[p].res \in Refused
              /\ \A u \in Users : users'[u].partner = users[u].partner
              /\ notifications' = notifications

LinkSymmetricExclusive == [][\A p \in Procs : LinkStepOK(p)]_vars

\* A link request answered success, the two users pointing at each other,
\* while the third user's request for the same partner was refused.
LinkedPairReached ==
    \E p \in Procs :
        /\ req[p].kind = "link" /\ req[p].res = "error"
        /\ users[req[p].caller].partner = NoUser
        /\ \E a, b \in Users \ {req[p].caller} :
              /\ a # b
              /\ req[p].code = b
              /\ users[a].partner = b /\ users[b].partner = a
              /\ Len(notifications) = 1
              /\ notifications[1] = NewNotification(b, "partner_joined")

\* C3 (partner consistency): whenever no request is in flight, no user is
\* their own partner and every partner reference is mutual.
PartnerConsistency ==
    Quiescent =>
        \A a \in Users :
            /\ users[a].partner # a
            /\ users[a].partner # NoUser => users[users[a].partner].partner = a

\* C4 (one winner per invitation code): two partner_link requests by
\* different users that both answered success never leave both callers
\* pointing at the same partner.
LinkRaceOneWinner ==
    \A p, q \in Procs :
        ( /\ p # q
          /\ req[p].kind = "link" /\ req[p].res = "ok"
          /\ req[q].kind = "link" /\ req[q].res = "ok"
          /\ req[p].caller # req[q].caller )
        => ~ ( /\ users[req[p].caller].partner # NoUser
               /\ users[req[p].caller].partner = users[req[q].caller].partner )

\* C5 (a session is completed once): at most one ActivityCompletion row per
\* session, at most one complete request per session past the insert or
\* answered success, no more earned_activity rows than completion rows, and
\* no more points or coins credited than the completion rows carry.
PastInsert ==
    {"session", "user", "streak", "streak_create", "streak_update",
     "ledger", "notify"}

CompletedOnce ==
    /\ \A s \in 1..MaxSessions :
          /\ Cardinality({i \in 1..Len(completions) :
                             completions[i].session = s}) <= 1
          /\ Cardinality({p \in Procs :
                             /\ req[p].kind = "complete" /\ req[p].sid = s
                             /\ req[p].pc \in PastInsert \/ req[p].res = "ok"})
                <= 1
    /\ \A u \in Users :
          LET cs == RowsOf(completions, u)
              earned == SelectSeq(RowsOf(ledger, u),
                           LAMBDA t : t.transaction_type = "earned_activity") IN
          /\ Len(earned) <= Len(cs)
          /\ users[u].total_points <= SumPoints(cs)
          /\ users[u].coins <= Len(cs) * CoinsReward

\* Two complete requests for one session, one answered success and the
\* other an error, the session's reward credited once.
SecondCompleteRefused ==
    \E p, q \in Procs :
        /\ req[p].kind = "complete" /\ req[p].res = "ok"
        /\ req[q].kind = "complete" /\ req[q].res = "crash"
        /\ req[p].sid = req[q].sid
        /\ Len(completions) = 1
        /\ completions[1].session = req[p].sid
        /\ users[req[p].caller].total_points = PointsReward

\* C6 (complete rejects a missing, foreign or closed session): a complete
\* request whose session does not exist or belongs to another user is
\* answered an error at the lookup, and one whose session is completed,
\* skipped or abandoned is answered an error at the insert; neither step
\* changes any table.
CompleteStepRejects(p) ==
    LET r == req[p]
        refused ==
            \/ /\ r.pc = "find"
               /\ \/ r.sid \notin 1..Len(sessions)
                  \/ sessions[r.sid].user # r.caller
            \/ /\ r.pc = "insert"
               /\ sessions[r.sid].status \in
                      {"completed", "skipped", "abandoned"} IN
    (r.kind = "complete" /\ req'[p] # r /\ refused) =>
        /\ req'[p].res \in Refused
        /\ UNCHANGED dbVars

CompleteRejectsClosed == [][\A p \in Procs : CompleteStepRejects(p)]_vars

\* C7 (completion is all-or-nothing): whenever no request is in flight,
\* every completion row has its points and coins credited, a matching
\* earned_activity ledger row, and the streak updated for its day.
CompletionAtomic ==
    Quiescent =>
        \A u \in Users :
            LET cs == RowsOf(completions, u)
                earned == SelectSeq(RowsOf(ledger, u),
                             LAMBDA t : t.transaction_type = "earned_activity")
                mine == RowsOf(streaks, u) IN
            /\ users[u].total_points = SumPoints(cs)
            /\ Len(earned) = Len(cs)
            /\ \A i \in 1..Len(cs) :
                  \E j \in 1..Len(mine) :
                      mine[j].last_activity_date >= cs[i].completed_at

\* C8 (no overdraft): coins are never negative, and whenever no request is
\* in flight the amounts spent do not exceed the amounts earned.
NoOverdraft ==
    \A u \in Users :
        /\ users[u].coins >= 0
        /\ Quiescent => SumAmount(RowsOf(ledger, u)) >= 0

\* C9 (spend contract), as amended: a spend with cost < 1 or cost above the
\* balance is answered an error and changes neither coins nor ledger; a
\* spend with 1 <= cost <= balance lowers coins by exactly cost, and its
\* success writes exactly one row, amount = -cost and balance_after = the
\* new balance.
SpendStep(p, accepted) ==
    LET r == req[p]
        u == r.caller IN
    (r.kind = "spend" /\ r.pc # "done" /\ req'[p] # r) =>
        /\ (r.pc = "validate" /\ ~accepted) =>
              /\ req'[p].res = "error"
              /\ users' = users /\ ledger' = ledger
        /\ (r.pc = "validate" /\ accepted) =>
              \/ /\ req'[p].pc = "ledger"
                 /\ users'[u].coins = users[u].coins - r.cost
                 /\ ledger' = ledger
              \/ req'[p].res = "crash" /\ UNCHANGED dbVars
        /\ req'[p].res = "ok" =>
              /\ users' = users
              /\ ledger' = Append(ledger, ledger'[Len(ledger')])
              /\ ledger'[Len(ledger')].user = u
              /\ ledger'[Len(ledger')].amount = 0 - r.cost
              /\ ledger'[Len(ledger')].balance_after = users[u].coins

SpendContract ==
    [][\A p \in Procs :
          SpendStep(p, 1 <= req[p].cost
                       /\ req[p].cost <= users[req[p].caller].coins)]_vars

\* C9 as first stated: every spend with cost <= balance is accepted.
SpendContractAnyCost ==
    [][\A p \in Procs :
          SpendStep(p, req[p].cost <= users[req[p].caller].coins)]_vars

\* A spend answered success: one negative row whose balance_after is the
\* stored balance.
SpendSucceeded ==
    \E p \in Procs :
        /\ req[p].kind = "spend" /\ req[p].res = "ok"
        /\ Len(ledger) >= 2
        /\ ledger[Len(ledger)].amount < 0
        /\ ledger[Len(ledger)].balance_after = users[req[p].caller].coins

\* C10 (level thresholds): the level computed for a point total is in 1..4,
\* is the level whose [min, max] range of the threshold table holds the
\* total, and is not below the level of any smaller total.
LevelMatchesThresholds ==
    /\ lvLevel \in 1..4
    /\ level_thresholds[lvLevel].min <= lvPoints
    /\ \/ level_thresholds[lvLevel].max = -1
       \/ lvPoints <= level_thresholds[lvLevel].max
    /\ \A q \in 0..lvPoints : levelFor(q) <= lvLevel
    /\ lvPoints = 500 => lvLevel = 1
    /\ lvPoints = 501 => lvLevel = 2
    /\ lvPoints = 3000 => lvLevel = 3
    /\ lvPoints = 3001 => lvLevel = 4

\* The total that first reaches level 4.
LevelFourReached == lvPoints = 3001 /\ lvLevel = 4

\* C11 (level progress): a report for a user below level 4 gives the
\* percentage (total_points - min) * 100 / (max - min) of the level's range
\* to two decimals, within 0..100, and points-to-next = max - total_points,
\* not negative; at level 4 it gives 100 and 0.  A user with 510 points is at
\* level 2 with a percentage of 0.90.
LevelProgressReport ==
    lvReport.by # "none" =>
        LET t == level_thresholds[lvLevel]
            n == lvPoints - t.min
            d == t.max - t.min
        IN  /\ lvLevel < 4 =>
                /\ 2 * (lvReport.progress_percentage * d - n * 10000) <= d
                /\ 2 * (n * 10000 - lvReport.progress_percentage * d) <= d
                /\ lvReport.progress_percentage \in 0..10000
                /\ lvReport.points_to_next = t.max - lvPoints
                /\ lvReport.points_to_next >= 0
                /\ lvReport.next_level = lvLevel + 1
            /\ lvLevel = 4 =>
                /\ lvReport.progress_percentage = 10000
                /\ lvReport.points_to_next = 0
            /\ lvPoints = 510 =>
                /\ lvLevel = 2
                /\ lvReport.progress_percentage = 90

\* The report for 510 points, reached from 500 by a 10-point completion.
ReportAtFiveTen ==
    /\ lvPoints = 510
    /\ lvReport.by = "levels"
    /\ lvReport.progress_percentage = 90
    /\ lvReport.points_to_next = 990

\* C12 (streak update is idempotent within a day): from any Streak row, a
\* call of update_streak on the date of the call before it leaves
\* current_streak, longest_streak, last_activity_date, total_active_days and
\* streak_start_date as that call left them.
StreakSameDayIdempotent ==
    [][(skCalls' = skCalls + 1 /\ skCalls > 0 /\ skDay' = skDay)
           => skRow' = skRow]_vars

\* A second call on one date has been made on a row that the first changed.
SecondCallSameDay ==
    /\ skCalls = 2
    /\ skRow.last_activity_date = skDay
    /\ skRow.current_streak = 3
    /\ skRow.total_active_days = 3

\* C13 (streak gap rule): a call with gap 1 adds one to current_streak and to
\* total_active_days; with gap 0 it changes nothing; with gap >= 2 it sets
\* current_streak to 1 and streak_start_date to today and adds one to
\* total_active_days; with no prior activity it sets current_streak,
\* longest_streak and total_active_days to 1; longest_streak never decreases;
\* days 1, 2, 3 then 6 end with current 1, longest 3, total 4.
StreakGapRule ==
    [][skCalls' = skCalls + 1 =>
        LET gap == skDay' - skRow.last_activity_date
            prior == skRow.last_activity_date # NoDate
        IN  /\ (prior /\ gap = 1) =>
                /\ skRow'.current_streak = skRow.current_streak + 1
                /\ skRow'.total_active_days = skRow.total_active_days + 1
            /\ (prior /\ gap = 0) => skRow' = skRow
            /\ (prior /\ gap >= 2) =>
                /\ skRow'.current_streak = 1
                /\ skRow'.streak_start_date = skDay'
                /\ skRow'.total_active_days = skRow.total_active_days + 1
            /\ ~prior =>
                /\ skRow'.current_streak = 1
                /\ skRow'.longest_streak = 1
                /\ skRow'.total_active_days = 1
            /\ skRow'.longest_streak >= skRow.longest_streak
            /\ ( /\ skRow.current_streak = 3 /\ skRow.longest_streak = 3
                  /\ skRow.total_active_days = 3
                  /\ skRow.last_activity_date = 3 /\ skDay' = 6 ) =>
                /\ skRow'.current_streak = 1
                /\ skRow'.longest_streak = 3
                /\ skRow'.total_active_days = 4]_vars

\* The row after completions on days 1, 2, 3 and 6.
StreakAfterGap ==
    /\ skCalls = 4
    /\ skDay = 6
    /\ skRow.current_streak = 1
    /\ skRow.longest_streak = 3
    /\ skRow.total_active_days = 4
    /\ skRow.streak_start_date = 6

\* C14 (streak invariant): in every state reached from a fresh Streak by
\* update_streak calls on any dates, longest_streak >= current_streak, and
\* a call that changed the row leaves current_streak >= 1.
StreakInvariant ==
    /\ skRow.longest_streak >= skRow.current_streak
    /\ [][ /\ skRow'.longest_streak >= skRow'.current_streak
           /\ skRow' # skRow => skRow'.current_streak >= 1 ]_vars

\* A reset after a streak of two: current_streak is back at 1 below longest.
StreakResetToOne ==
    /\ skRow.current_streak = 1
    /\ skRow.longest_streak = 2
    /\ skRow.total_active_days = 3

\* C15 (bond score bounds): for every user state the score is in 0..100,
\* and it is 0 when the user has no partner.
BondScoreBounds ==
    bond.calculated =>
        /\ bond.score \in 0..100
        /\ bond.partner = NoUser => bond.score = 0

\* A score at the cap: both counts at 20 or more and a streak of 15 or more.
BondScoreAtCap ==
    /\ bond.calculated
    /\ bond.partner # NoUser
    /\ bond.within >= 20
    /\ bond.partner_within >= 20
    /\ bond.score = 100

\* C16 (bond score formula), as amended: with a partner the score is
\* min(min((u + p) * 2, 60) + min(currentStreak * 2, 30) + c, 100), u and p
\* the two completion counts of the last 30 days, c = 10 if both are >= 20
\* else 5, and currentStreak the current_streak of the Streak row that
\* streaks.first() returns if that row's last activity is at most one day
\* back, and 0 if it is older or the user has no Streak row.
BondScoreFormula ==
    (bond.calculated /\ bond.partner # NoUser) =>
        LET currentStreak ==
                IF bond.streaks # <<>>
                   /\ bond.streak_obj.last_activity_date # NoDate
                   /\ bond.day - bond.streak_obj.last_activity_date <= 1
                THEN bond.streak_obj.current_streak
                ELSE 0
            c == IF bond.within >= 20 /\ bond.partner_within >= 20
                 THEN 10 ELSE 5
        IN  /\ bond.streaks # <<>> =>
                /\ bond.streak_obj \in {bond.streaks[i] :
                                            i \in DOMAIN bond.streaks}
                /\ \A i \in DOMAIN bond.streaks :
                       bond.streaks[i].current_streak
                           <= bond.streak_obj.current_streak
            /\ bond.score =
                   Min(Min((bond.within + bond.partner_within) * 2, 60)
                         + Min(currentStreak * 2, 30) + c, 100)

\* C16 as first stated: currentStreak is the stored current_streak.
BondScoreStoredStreak ==
    (bond.calculated /\ bond.partner # NoUser) =>
        LET currentStreak ==
                IF bond.streaks # <<>>
                THEN bond.streak_obj.current_streak
                ELSE 0
            c == IF bond.within >= 20 /\ bond.partner_within >= 20
                 THEN 10 ELSE 5
        IN  bond.score =
                Min(Min((bond.within + bond.partner_within) * 2, 60)
                      + Min(currentStreak * 2, 30) + c, 100)

\* A score with an active streak counted: 2 * 3 + 2 * 4 + 5.
BondScoreWithStreak ==
    /\ bond.calculated
    /\ bond.partner # NoUser
    /\ bond.within = 2
    /\ bond.partner_within = 1
    /\ Len(bond.streaks) = 1
    /\ bond.streak_obj.current_streak = 4
    /\ bond.streak_obj.last_activity_date = 2
    /\ bond.score = 19

PremiumPaidBeforeCompletion ==
    \A i \in DOMAIN completions :
        LET c == completions[i] IN
        ( /\ activity_row(c.activity).is_premium
          /\ \A j \in 1..(i - 1) :
                ~(completions[j].user = c.user
                  /\ completions[j].activity = c.activity) )
        => \E k \in DOMAIN ledger :
              /\ ledger[k].user = c.user
              /\ ledger[k].transaction_type = "spent_unlock_activity"
              /\ ledger[k].related_object_id = c.activity
              /\ ledger[k].amount
                    = 0 - activity_row(c.activity).unlock_cost_coins

\* C19 (one open session): under any interleaving of start, complete and
\* skip requests each (user, activity) pair has at most one ActivitySession
\* with status started or in_progress, and a start request made while such
\* a session exists creates no new one.
OneOpenSession ==
    [][ /\ \A i, j \in DOMAIN sessions' :
              ( /\ sessions'[i].user = sessions'[j].user
                /\ sessions'[i].activity = sessions'[j].activity
                /\ sessions'[i].status \in OpenStatuses
                /\ sessions'[j].status \in OpenStatuses ) => i = j
        /\ \A p \in Procs :
              ( /\ req[p].kind = "start"
                /\ req[p].pc \notin {"idle", "done"}
                /\ req'[p].pc # req[p].pc
                /\ \E i \in DOMAIN sessions :
                      /\ sessions[i].user = req[p].caller
                      /\ sessions[i].activity = req[p].activity
                      /\ sessions[i].status \in OpenStatuses )
              => sessions' = sessions ]_vars

\* C20 (daily skip cap): for every (user, date), under any interleaving, at
\* most max_skips_per_day skip requests are answered with success and
\* skips_used never exceeds max_skips_per_day; a skip made when skips_used
\* equals max_skips_per_day is rejected and changes neither skips_used nor
\* a session; a skip on a new date starts from skips_used = 0.
DailySkipCap ==
    [][ /\ \A k \in Users \X Days :
              /\ skipLimits'[k] <= MaxSkipsPerDay
              /\ skipAnswers'[k] <= MaxSkipsPerDay
        /\ \A p \in Procs :
              ( /\ At(p, "skip", "limit")
                /\ req'[p].pc # "limit"
                /\ skipLimits[<<req[p].caller, today>>] = MaxSkipsPerDay )
              => /\ req'[p].res = "error"
                 /\ UNCHANGED <<skipLimits, sessions>>
        /\ today' # today =>
              \A u \in Users : skipLimits[<<u, today'>>] = 0 ]_vars

\* C21 (session/completion lifecycle): whenever no request is in flight a
\* session has an ActivityCompletion row if and only if its status is
\* completed, and a session whose status is completed, skipped or abandoned
\* never changes status again.
SessionLifecycle ==
    [][ /\ Quiescent' =>
             \A i \in DOMAIN sessions' :
                 (sessions'[i].status = "completed")
                     <=> (\E k \in DOMAIN completions' :
                             completions'[k].session = i)
        /\ \A i \in DOMAIN sessions :
             sessions[i].status \in {"completed", "skipped", "abandoned"}
                 => sessions'[i].status = sessions[i].status ]_vars

\* C22 (one Streak row per user): under any interleaving of the requests
\* that create the row lazily, each user has at most one Streak row.
OneStreakRow ==
    \A u \in Users :
        Cardinality({i \in DOMAIN streaks : streaks[i].user = u}) <= 1

LedgerAppendOnly ==
    [][ /\ Len(ledger') \in {Len(ledger), Len(ledger) + 1}
        /\ SubSeq(ledger', 1, Len(ledger)) = ledger
        /\ \A p \in Procs :
             LET r == req[p]
                 wrote == \/ r.kind \in {"spend", "bonus"} /\ r.pc = "ledger"
                          \/ /\ r.kind = "complete"
                             /\ r.pc \in {"streak", "streak_create",
                                           "streak_update", "ledger"}
                 delta == IF r.kind = "spend" THEN 0 - r.cost
                          ELSE IF r.kind = "bonus" THEN BonusCoins
                          ELSE r.coins_earned
             IN  (wrote /\ req'[p].pc \in {"done", "notify"})
                 => /\ Len(ledger') = Len(ledger) + 1
                    /\ ledger'[Len(ledger')].user = r.caller
                    /\ ledger'[Len(ledger')].amount = delta
                    /\ ledger'[Len(ledger')].balance_after = r.me.coins
        /\ Len(ledger') = Len(ledger) + 1 =>
             \E p \in Procs : req[p].pc = "ledger" /\ req'[p].pc # "ledger" ]_vars

LevelConsistency ==
    \A u \in Users : users[u].current_level = levelFor(users[u].total_points)

\* C26 witness: u1 brought to level 3 by one completion while a daily bonus
\* of u1 was written too.
LevelThreeWithBonus ==
    /\ Quiescent
    /\ users["u1"].total_points = 1501
    /\ users["u1"].current_level = 3
    /\ \E i \in DOMAIN ledger : ledger[i].transaction_type = "earned_daily_bonus"

\* C27 (points conservation): whenever no request is in flight, whatever
\* the interleaving of one user's requests was, the user's total_points is
\* the sum of points_earned over the user's ActivityCompletion rows.
PointsConservation ==
    Quiescent =>
        \A u \in Users :
            users[u].total_points = SumPoints(RowsOf(completions, u))

\* C28 (one daily bonus a day): whatever the interleaving of claim
\* requests, the ledger holds at most one earned_daily_bonus row per user
\* and date, and a claim answered after such a row exists for today is
\* refused and changes neither the coins nor the ledger.
DailyBonusOnce ==
    [][ /\ \A u \in Users, d \in Days :
             Cardinality({i \in DOMAIN ledger' :
                            /\ ledger'[i].user = u
                            /\ ledger'[i].transaction_type = "earned_daily_bonus"
                            /\ ledger'[i].created_at = d}) <= 1
        /\ \A p \in Procs :
             (/\ req[p].kind = "bonus"
              /\ req[p].pc = "check"
              /\ req'[p] # req[p]
              /\ \E i \in DOMAIN ledger :
                    /\ ledger[i].user = req[p].caller
                    /\ ledger[i].transaction_type = "earned_daily_bonus"
                    /\ ledger[i].created_at = today)
             => /\ req'[p].res \in Refused
                /\ req'[p].pc = "done"
                /\ users' = users
                /\ ledger' = ledger ]_vars

\* C29 (unlink clears both sides and nothing else): a partner_unlink
\* request answered success leaves its caller and the caller's partner with
\* no partner; one made by a user with no partner is refused and changes no
\* table; and no step of an unlink request changes any user's points,
\* coins or level.
UnlinkStepOK(p) ==
    LET r == req[p] IN
    (r.kind = "unlink" /\ r.pc # "done" /\ req'[p] # r) =>
        /\ req'[p].res = "ok" =>
              /\ users'[r.caller].partner = NoUser
              /\ users'[r.code].partner = NoUser
        /\ (r.pc = "check" /\ r.me.partner = NoUser)
           => /\ req'[p].res \in Refused
              /\ dbVars' = dbVars
        /\ \A u \in Users :
              /\ users'[u].total_points = users[u].total_points
              /\ users'[u].coins = users[u].coins
              /\ users'[u].current_level = users[u].current_level

UnlinkClearsBothOnly == [][\A p \in Procs : UnlinkStepOK(p)]_vars

\* C30 (read state is monotonic): through mark_read and mark_all_read a
\* notification never goes from read to unread, a read notification has
\* read_at set, mark_read on a notification of its caller that it finds
\* read answers success and writes nothing, and mark_all_read changes only rows of its caller that were
\* unread.
ReadStateMonotonic ==
    [][ /\ \A i \in DOMAIN notifications :
             /\ i \in DOMAIN notifications'
             /\ notifications[i].is_read => notifications'[i].is_read
        /\ \A i \in DOMAIN notifications' :
             notifications'[i].is_read => notifications'[i].read_at # NoDate
        /\ \A p \in Procs :
             /\ ( /\ req[p].kind = "mark_read"
                  /\ req[p].pc = "get"
                  /\ req'[p] # req[p]
                  /\ req[p].sid \in DOMAIN notifications
                  /\ notifications[req[p].sid].user = req[p].caller
                  /\ notifications[req[p].sid].is_read )
                => /\ notifications' = notifications
                   /\ req'[p].pc = "done"
                   /\ req'[p].res = "ok"
             /\ ( /\ req[p].kind = "mark_all_read"
                  /\ req[p].pc = "update"
                  /\ req'[p] # req[p] )
                => \A i \in DOMAIN notifications :
                      notifications'[i] # notifications[i] =>
                          /\ notifications[i].user = req[p].caller
                          /\ ~notifications[i].is_read ]_vars

\* C30 witness: u2's notification read on day 1 and still stamped day 1 on
\* day 2, after a second mark_read and a mark_all_read of u2 were answered.
ReadStampKept ==
    /\ today = 2
    /\ Len(notifications) = 1
    /\ notifications[1].user = "u2"
    /\ notifications[1].is_read
    /\ notifications[1].read_at = 1
    /\ \E p, q \in Procs :
          /\ p # q
          /\ req[p].kind = "mark_read" /\ req[p].res = "ok"
          /\ req[p].caller = "u2" /\ req[p].sid = 1
          /\ req[q].kind = "mark_all_read" /\ req[q].res = "ok"
          /\ req[q].caller = "u2"

====
